---- MODULE Spec2Model ----
(***************************************************************************)
(* BetterFish: the UCI driver loop (main.rs), the iterative-deepening      *)
(* alpha-beta search with transposition table, killers and history         *)
(* (engine.rs), the opening book lookup (opening_book.rs) and the phase    *)
(* computation of the evaluator (evaluation.rs).                           *)
(*                                                                         *)
(* The chess rules library (shakmaty) is external.  A position is an      *)
(* abstract identifier; the table Game gives, for every position, what    *)
(* the library answers about it: side to move, is_check, insufficient      *)
(* material, the legal move list (in generator order) with the position    *)
(* each move leads to, and the result of swap_turn.  The table keeps the   *)
(* facts of chess the search relies on: a capture removes a piece (so the  *)
(* capture graph is acyclic), sides alternate, and a chain of consecutive  *)
(* checks is finite.  The Zobrist hash is taken to be injective on the     *)
(* positions of the table, so the transposition table is keyed by the      *)
(* position identifier.                                                    *)
(*                                                                         *)
(* The recursion of alpha_beta / quiescence is modelled by an explicit     *)
(* call stack of frames; every call entry and every return is a state.     *)
(***************************************************************************)
EXTENDS Integers, Sequences, FiniteSets, TLC

VARIABLES
    pos,        \* main: the driver's current position
    dpc,        \* main: "idle" (reading a line), "go" (inside find_best_move), "quit", "panicked"
    lastCmd,    \* the line (token sequence) handled last
    prevPos,    \* pos as it was before the line handled last
    output,     \* the lines printed while handling the last line
    goCount,    \* number of go commands handled so far
    result,     \* what the last find_best_move returned, and how
    tt,         \* Engine.tt
    killers,    \* Engine.killers
    history,    \* Engine.history
    stack,      \* call stack: find_best_move / alpha_beta / quiescence frames
    ret,        \* the last value returned by alpha_beta / quiescence
    statics,    \* evaluate's material / piece-square sum of each live position
    ev          \* evaluate: the phase computation (piece counts in, phase out)

vars == <<pos, dpc, lastCmd, prevPos, output, goCount, result, tt, killers,
          history, stack, ret, statics, ev>>

---------------------------------------------------------------------------
(* Bounds of the model *)

\* number of go commands the driver is given
MaxGo == 2
\* cap on the depth of the call stack (never reached by the search as written)
MaxStack == 24
\* largest number of pieces of one role drawn for the phase computation
MaxCount == 4

(* Program constants *)

InfScore == 40000
MateValue == 30000
DriverDepth == 6
AspirationDelta == 50
FutilityMargin == 160
TotalPhase == 24
KillerDepths == 64
HashMoveKey == -4000000
CaptureKey == -2000000
Killer0Key == -900000
Killer1Key == -800000
PromotionKey == -700000

---------------------------------------------------------------------------
(* Integer helpers *)

Max(a, b) == IF a >= b THEN a ELSE b
Min(a, b) == IF a <= b THEN a ELSE b

\* Rust's i32 division truncates toward zero
TruncDiv(a, b) == IF a >= 0 THEN a \div b ELSE -((-a) \div b)

\* `x as i32` for a u32 x: the identity up to i32::MAX, two's complement above
\* (the counters of the model stay far below it)
AsI32(x) == IF x > 2147483647 THEN (x - 2147483647) - 2147483647 - 2 ELSE x

Range(s) == {s[k] : k \in 1..Len(s)}

---------------------------------------------------------------------------
(* Moves.  shakmaty::Move compares structurally: role, from, to, capture,  *)
(* promotion.  NoMove stands for Option::None.                             *)

NoMove == [role |-> "none", from |-> 0, to |-> 0, capture |-> "none", promotion |-> "none"]

Quiet(role, from, to) ==
    [role |-> role, from |-> from, to |-> to, capture |-> "none", promotion |-> "none"]
Takes(role, from, to, victim) ==
    [role |-> role, from |-> from, to |-> to, capture |-> victim, promotion |-> "none"]
Promote(from, to) ==
    [role |-> "pawn", from |-> from, to |-> to, capture |-> "none", promotion |-> "queen"]

is_capture(m) == m.capture # "none"
is_promotion(m) == m.promotion # "none"

\* constants.rs is not among the sources; values as the specification gives them
get_material_value(role) ==
    CASE role = "pawn" -> 100
      [] role = "knight" -> 320
      [] role = "bishop" -> 330
      [] role = "rook" -> 500
      [] role = "queen" -> 900
      [] role = "king" -> 20000

---------------------------------------------------------------------------
(* The rules library's answers.  Sides: 0 = White, 1 = Black.  Squares     *)
(* are 0..63 (a1 = 0, h8 = 63).  swap = 0 stands for swap_turn's Err.      *)

Pos(turn, check, insufficient, majors, swap, static, moves) ==
    [turn |-> turn, check |-> check, insufficient |-> insufficient,
     majors |-> majors, swap |-> swap, static |-> static, moves |-> moves]

To(m, dst) == [m |-> m, dst |-> dst]

KE1F1 == Quiet("king", 4, 5)
KE8F8 == Quiet("king", 60, 61)
KE8E7 == Quiet("king", 60, 52)
RA1A8 == Quiet("rook", 0, 56)
RA1xA7 == Takes("rook", 0, 48, "pawn")
RH8xA7 == Takes("rook", 63, 48, "rook")
NB1C3 == Quiet("knight", 1, 18)
NB8C6 == Quiet("knight", 57, 42)
BC1E3 == Quiet("bishop", 2, 20)
KE1xE2 == Takes("king", 4, 12, "pawn")

Game == <<
 (* 1  start position *)
 Pos(0, FALSE, FALSE, TRUE, 0, 20, << To(Quiet("pawn", 12, 28), 2) >>),
 (* 2  after 1. e4 *)
 Pos(1, FALSE, FALSE, TRUE, 0, -20, << To(Quiet("pawn", 52, 36), 3) >>),
 (* 3  middlegame, White to move, seven moves, a pawn about to promote *)
 Pos(0, FALSE, FALSE, TRUE, 7, 50,
     << To(Promote(54, 62), 8), To(NB1C3, 5), To(BC1E3, 7), To(RA1xA7, 14),
        To(RA1A8, 6), To(KE1F1, 4), To(KE1xE2, 24) >>),
 (* 4 *)
 Pos(1, FALSE, FALSE, TRUE, 9, -30,
     << To(KE8F8, 9), To(Takes("bishop", 58, 1, "knight"), 12) >>),
 (* 5 *)
 Pos(1, FALSE, FALSE, TRUE, 10, -60, << To(KE8F8, 9), To(NB8C6, 10) >>),
 (* 6  Black in check from the rook *)
 Pos(1, TRUE, FALSE, TRUE, 0, -10,
     << To(KE8E7, 10), To(Takes("rook", 63, 56, "rook"), 12) >>),
 (* 7 *)
 Pos(1, FALSE, FALSE, TRUE, 3, -45, << To(NB8C6, 10), To(KE8F8, 9) >>),
 (* 8  White has just promoted *)
 Pos(1, FALSE, FALSE, TRUE, 0, -800,
     << To(Takes("rook", 63, 62, "queen"), 13), To(KE8E7, 11) >>),
 (* 9 *)
 Pos(0, FALSE, FALSE, TRUE, 4, 35, << To(BC1E3, 7), To(RA1xA7, 16) >>),
 (* 10  White mates with Ra8 *)
 Pos(0, FALSE, FALSE, TRUE, 5, 55, << To(KE1F1, 4), To(RA1A8, 15) >>),
 (* 11  White, a queen up: one move mates, one stalemates *)
 Pos(0, FALSE, FALSE, TRUE, 0, 900,
     << To(Quiet("queen", 62, 46), 19), To(Quiet("queen", 62, 54), 15) >>),
 (* 12 *)
 Pos(0, FALSE, FALSE, TRUE, 16, -250, << To(KE1F1, 16), To(RA1xA7, 17) >>),
 (* 13 *)
 Pos(0, FALSE, FALSE, TRUE, 14, -100,
     << To(Takes("knight", 1, 62, "rook"), 17), To(KE1F1, 14) >>),
 (* 14 *)
 Pos(1, FALSE, FALSE, TRUE, 13, -120, << To(RH8xA7, 18), To(KE8F8, 12) >>),
 (* 15  Black is checkmated *)
 Pos(1, TRUE, FALSE, TRUE, 0, 0, << >>),
 (* 16 *)
 Pos(1, FALSE, FALSE, TRUE, 12, 80, << To(KE8F8, 13), To(RH8xA7, 18) >>),
 (* 17  Black has king and pawns only *)
 Pos(1, FALSE, FALSE, FALSE, 18, -300,
     << To(Takes("king", 60, 52, "pawn"), 20), To(KE8F8, 18) >>),
 (* 18 *)
 Pos(0, FALSE, FALSE, TRUE, 17, 280,
     << To(KE1xE2, 21), To(RA1A8, 22) >>),
 (* 19  Black is stalemated *)
 Pos(1, FALSE, FALSE, FALSE, 0, 0, << >>),
 (* 20  king against king, White to move *)
 Pos(0, FALSE, TRUE, FALSE, 21, 0,
     << To(KE1F1, 21), To(Quiet("king", 4, 3), 21) >>),
 (* 21  king against king, Black to move *)
 Pos(1, FALSE, TRUE, FALSE, 20, 0, << To(KE8F8, 20) >>),
 (* 22  Black in check; the only reply uncovers a check *)
 Pos(1, TRUE, FALSE, FALSE, 0, -290, << To(Quiet("pawn", 52, 44), 23) >>),
 (* 23  White in check *)
 Pos(0, TRUE, FALSE, TRUE, 0, 270, << To(KE1F1, 17) >>),
 (* 24  after Kxe2: Black can take a pawn, which looks good for four plies *)
 Pos(1, FALSE, FALSE, FALSE, 0, 60,
     << To(Takes("pawn", 49, 40, "pawn"), 25), To(Quiet("king", 60, 59), 30) >>),
 (* 25 .. 29  a forced pawn ending: White wins it, seen only five plies on *)
 Pos(0, FALSE, FALSE, FALSE, 0, -80, << To(Quiet("pawn", 15, 23), 26) >>),
 Pos(1, FALSE, FALSE, FALSE, 0, 80, << To(Quiet("pawn", 40, 32), 27) >>),
 Pos(0, FALSE, FALSE, FALSE, 0, -80, << To(Quiet("pawn", 23, 31), 28) >>),
 Pos(1, FALSE, FALSE, FALSE, 0, 80, << To(Quiet("pawn", 32, 24), 29) >>),
 Pos(0, FALSE, FALSE, FALSE, 0, 600, << To(Quiet("pawn", 31, 39), 15) >>),
 (* 30  reached only from 24 *)
 Pos(0, FALSE, FALSE, FALSE, 0, 40, << To(Quiet("king", 12, 13), 16), To(RA1xA7, 17) >>)
>>

Positions == 1..Len(Game)
StartPos == 1

turn(p) == Game[p].turn
is_check(p) == Game[p].check
legal_moves(p) == [k \in 1..Len(Game[p].moves) |-> Game[p].moves[k].m]
is_insufficient_material(p) == Game[p].insufficient
is_game_over(p) == Len(Game[p].moves) = 0 \/ is_insufficient_material(p)
is_checkmate(p) == Len(Game[p].moves) = 0 /\ is_check(p)
has_major_pieces(p) == Game[p].majors
swap_turn(p) == Game[p].swap
play(p, m) == (CHOOSE e \in Range(Game[p].moves) : e.m = m).dst

\* facts of chess the table has to respect
RECURSIVE CheckRun(_, _)
CheckRun(p, n) ==
    IF n = 0 \/ ~is_check(p) THEN 0
    ELSE 1 + (IF Len(Game[p].moves) = 0 THEN 0
              ELSE LET S == {CheckRun(e.dst, n - 1) : e \in Range(Game[p].moves)}
                   IN CHOOSE x \in S : \A y \in S : y <= x)
RECURSIVE CaptureRun(_, _)
CaptureRun(p, n) ==
    LET C == {e \in Range(Game[p].moves) : is_capture(e.m)}
    IN IF n = 0 \/ C = {} THEN 0
       ELSE LET S == {CaptureRun(e.dst, n - 1) : e \in C}
            IN 1 + (CHOOSE x \in S : \A y \in S : y <= x)
GameWellFormed ==
    /\ \A p \in Positions : \A e \in Range(Game[p].moves) :
          /\ e.dst \in Positions
          /\ turn(e.dst) = 1 - turn(p)
          /\ e.m.from # e.m.to
    /\ \A p \in Positions :
          /\ swap_turn(p) # 0 => /\ swap_turn(p) \in Positions
                                 /\ turn(swap_turn(p)) = 1 - turn(p)
                                 /\ ~is_check(p) /\ ~is_check(swap_turn(p))
          /\ \A j, k \in 1..Len(Game[p].moves) :
                Game[p].moves[j].m = Game[p].moves[k].m => j = k
          /\ CheckRun(p, Len(Game)) < Len(Game)
          /\ CaptureRun(p, Len(Game)) < Len(Game)

---------------------------------------------------------------------------
(* evaluation.rs *)

\* evaluate, lines 32-39: the game phase from the piece counts
raw_phase(n_knights, n_bishops, n_rooks, n_queens) ==
    TotalPhase - (n_knights + n_bishops + n_rooks * 2 + n_queens * 4)

normalise_phase(phase) ==
    TruncDiv(phase * 256 + TruncDiv(TotalPhase, 2), TotalPhase)

game_phase(n_knights, n_bishops, n_rooks, n_queens) ==
    normalise_phase(raw_phase(n_knights, n_bishops, n_rooks, n_queens))

\* get_pst_value, line 20: interpolation between the two tables
get_pst_value(mg, eg, phase) == TruncDiv(mg * (256 - phase) + eg * phase, 256)

\* evaluate as the search sees it: the terminal cases are the code's, the
\* material / piece-square sum of a live position is the table's static score
evaluate(p) ==
    IF is_game_over(p)
    THEN IF is_checkmate(p) THEN -MateValue ELSE 0
    ELSE statics[p]

---------------------------------------------------------------------------
(* engine.rs: tables *)

NoEntry == [present |-> FALSE, depth |-> 0, score |-> 0, node_type |-> "Exact",
            best_move |-> NoMove]
TTEntry(depth, score, node_type, best_move) ==
    [present |-> TRUE, depth |-> depth, score |-> score, node_type |-> node_type,
     best_move |-> best_move]

\* the history cells the moves of the table can address
HistKeys == UNION {{<<turn(p), e.m.from, e.m.to>> : e \in Range(Game[p].moves)} : p \in Positions}

EmptyTT == [p \in Positions |-> NoEntry]
EmptyKillers == [d \in 0..(KillerDepths - 1) |-> <<NoMove, NoMove>>]
EmptyHistory == [k \in HistKeys |-> 0]

see_simple(m) ==
    LET victim == IF is_capture(m) THEN m.capture ELSE "pawn"
        attacker == m.role
    IN get_material_value(victim) - get_material_value(attacker) \div 10

\* the key order_moves gives a move (lines 36-54)
order_key(p, m, hash_move, depth) ==
    IF hash_move # NoMove /\ m = hash_move THEN HashMoveKey
    ELSE IF is_capture(m) THEN CaptureKey - see_simple(m)
    ELSE IF depth < KillerDepths /\ m = killers[depth][1] THEN Killer0Key
    ELSE IF depth < KillerDepths /\ m = killers[depth][2] THEN Killer1Key
    ELSE IF m.role # "none" THEN -AsI32(history[<<turn(p), m.from, m.to>>])
    ELSE IF is_promotion(m) THEN PromotionKey
    ELSE 0

\* sort_by_cached_key: the keys are computed once, the sort is stable and
\* ascending
SortByCachedKey(moves, keys) ==
    LET n == Len(moves)
        rank(j) == Cardinality({k \in 1..n : \/ keys[k] < keys[j]
                                             \/ keys[k] = keys[j] /\ k < j}) + 1
    IN [r \in 1..n |-> moves[CHOOSE j \in 1..n : rank(j) = r]]

order_moves(p, moves, hash_move, depth) ==
    SortByCachedKey(moves, [j \in 1..Len(moves) |->
                               order_key(p, moves[j], hash_move, depth)])

---------------------------------------------------------------------------
(* engine.rs: the call stack *)

NewFrame(fn, p, alpha, beta, depth, ply) ==
    [fn |-> fn, pc |-> "entry", pos |-> p, alpha |-> alpha, beta |-> beta,
     depth |-> depth, ply |-> ply, legals |-> <<>>, i |-> 0,
     best_score |-> -InfScore, best_move |-> NoMove, old_alpha |-> alpha,
     old_beta |-> beta, hash_move |-> NoMove, probe |-> "none", score |-> 0]

NoRet == [fn |-> "none", pos |-> 0, ply |-> 0, score |-> 0]

Top == stack[Len(stack)]
Rest == SubSeq(stack, 1, Len(stack) - 1)

Running(fn, pc) == dpc = "go" /\ stack # <<>> /\ Top.fn = fn /\ Top.pc = pc

\* return v from the top frame
Return(v) ==
    /\ stack' = Rest
    /\ ret' = [fn |-> Top.fn, pos |-> Top.pos, ply |-> Top.ply, score |-> v]
\* the top frame moves on to f
Goto(f) == stack' = Append(Rest, f) /\ ret' = ret
\* the top frame, now f, calls child
Call(f, child) ==
    /\ Len(stack) < MaxStack
    /\ stack' = Rest \o <<f, child>>
    /\ ret' = ret

KeepTables == UNCHANGED <<tt, killers, history>>
KeepDriver == UNCHANGED <<pos, dpc, lastCmd, prevPos, output, goCount, result, statics, ev>>

---------------------------------------------------------------------------
(* engine.rs: quiescence (lines 58-76) *)

stand_pat_alpha_kept(alpha, stand_pat) == alpha

\* line 61
stand_pat_alpha(alpha, stand_pat) == IF alpha < stand_pat THEN stand_pat ELSE alpha

\* lines 59-65: stand pat, then the ordered captures
QS_Entry ==
    /\ Running("qs", "entry")
    /\ LET f == Top
           stand_pat == evaluate(f.pos)
           a == stand_pat_alpha(f.alpha, stand_pat)
           captures == SelectSeq(legal_moves(f.pos), is_capture)
       IN IF stand_pat >= f.beta THEN Return(f.beta)
          ELSE IF Len(captures) = 0 THEN Return(a)
          ELSE Goto([f EXCEPT !.pc = "loop", !.alpha = a, !.i = 0,
                              !.legals = order_moves(f.pos, captures, NoMove, 0)])
    /\ KeepTables /\ KeepDriver

\* lines 67-70: the recursive call for capture i
QS_Loop ==
    /\ Running("qs", "loop")
    /\ LET f == Top
           m == f.legals[f.i + 1]
       IN Call([f EXCEPT !.pc = "ret"],
               NewFrame("qs", play(f.pos, m), -f.beta, -f.alpha, 0, f.ply + 1))
    /\ KeepTables /\ KeepDriver

\* lines 70-75: the child's score
QS_Ret ==
    /\ Running("qs", "ret")
    /\ LET f == Top
           score == -ret.score
           a == IF score > f.alpha THEN score ELSE f.alpha
       IN IF score >= f.beta THEN Return(f.beta)
          ELSE IF f.i + 1 = Len(f.legals) THEN Return(a)
          ELSE Goto([f EXCEPT !.pc = "loop", !.alpha = a, !.i = f.i + 1])
    /\ KeepTables /\ KeepDriver

---------------------------------------------------------------------------
(* engine.rs: alpha_beta (lines 78-185) *)

\* line 82
check_extension(depth, in_check) == IF in_check THEN depth + 1 ELSE depth

probe_cutoff_never(alpha, beta) == FALSE

\* line 91
probe_cutoff(alpha, beta) == alpha >= beta

null_move_allowed_bare_king(p, depth, in_check, ply) ==
    depth >= 3 /\ ~in_check /\ ply > 0

\* line 103 and lines 105-111
null_move_allowed(p, depth, in_check, ply) ==
    depth >= 3 /\ ~in_check /\ ply > 0 /\ has_major_pieces(p)

\* line 113
null_move_depth(depth) == depth - 3

iid_depth_same(depth) == depth

\* line 121
iid_depth(depth) == depth - 2

lmr_allowed_any_depth(i, depth, m, in_check, child_in_check) ==
    i >= 4 /\ ~is_capture(m) /\ ~in_check /\ ~child_in_check

\* line 145
lmr_allowed(i, depth, m, in_check, child_in_check) ==
    i >= 4 /\ depth >= 3 /\ ~is_capture(m) /\ ~in_check /\ ~child_in_check

\* line 146
lmr_reduction(i, depth) == 1 + Min(i \div 4, depth \div 3)

quiet_cutoff_any_move(cutoff, m, depth) == cutoff /\ depth < KillerDepths

\* lines 166-167: a cutoff whose move goes to the killers and the history
quiet_cutoff(cutoff, m, depth) == cutoff /\ ~is_capture(m) /\ depth < KillerDepths

\* lines 179-181
node_type(best_score, old_alpha, beta) ==
    IF best_score <= old_alpha THEN "UpperBound"
    ELSE IF best_score >= beta THEN "LowerBound"
    ELSE "Exact"

\* line 119 / 122
tt_hash_move(p) == IF tt[p].present THEN tt[p].best_move ELSE NoMove

Child(f, m, alpha, beta, depth) ==
    NewFrame("ab", play(f.pos, m), alpha, beta, depth, f.ply + 1)

\* lines 79-117: extension, TT probe, horizon, terminal, reverse futility,
\* and the null-move search
AB_Entry ==
    /\ Running("ab", "entry")
    /\ LET f0 == Top
           in_check == is_check(f0.pos)
           d == check_extension(f0.depth, in_check)
           e == tt[f0.pos]
           hit == e.present /\ e.depth >= d
           a == IF hit /\ e.node_type = "LowerBound" THEN Max(f0.alpha, e.score) ELSE f0.alpha
           b == IF hit /\ e.node_type = "UpperBound" THEN Min(f0.beta, e.score) ELSE f0.beta
           f == [f0 EXCEPT !.depth = d, !.alpha = a, !.beta = b,
                           !.probe = IF a # f0.alpha THEN "alpha"
                                     ELSE IF b # f0.beta THEN "beta" ELSE "none"]
       IN IF hit /\ e.node_type = "Exact" THEN Return(e.score)
          ELSE IF hit /\ probe_cutoff(a, b) THEN Return(e.score)
          ELSE IF d = 0
               THEN Call([f EXCEPT !.pc = "qs_ret"], NewFrame("qs", f.pos, a, b, 0, f.ply))
          ELSE IF is_game_over(f.pos) THEN Return(evaluate(f.pos))
          ELSE IF d = 1 /\ ~in_check /\ evaluate(f.pos) - FutilityMargin >= b THEN Return(b)
          ELSE IF null_move_allowed(f.pos, d, in_check, f.ply) /\ swap_turn(f.pos) # 0
               THEN Call([f EXCEPT !.pc = "null_ret"],
                         NewFrame("ab", swap_turn(f.pos), -b, -(b - 1),
                                  null_move_depth(d), f.ply + 1))
          ELSE Goto([f EXCEPT !.pc = "iid"])
    /\ KeepTables /\ KeepDriver

\* line 95: the value of quiescence is the value of the node
AB_QsRet ==
    /\ Running("ab", "qs_ret")
    /\ Return(ret.score)
    /\ KeepTables /\ KeepDriver

\* lines 113-114: the null-move score
AB_NullRet ==
    /\ Running("ab", "null_ret")
    /\ LET f == Top
           score == -ret.score
       IN IF score >= f.beta THEN Return(f.beta)
          ELSE Goto([f EXCEPT !.pc = "iid"])
    /\ KeepTables /\ KeepDriver

\* lines 125-135: the legal moves, ordered, and the loop's locals
MovesSetup(f) ==
    LET hash_move == tt_hash_move(f.pos)
        legals == legal_moves(f.pos)
    IN IF Len(legals) = 0
       THEN Return(IF is_check(f.pos) THEN -MateValue + f.ply ELSE 0)
       ELSE Goto([f EXCEPT !.pc = "loop", !.i = 0, !.hash_move = hash_move,
                           !.legals = order_moves(f.pos, legals, hash_move, f.depth),
                           !.best_score = -InfScore, !.best_move = NoMove,
                           !.old_alpha = f.alpha])

\* lines 119-121: internal iterative deepening when the TT gives no move
AB_IID ==
    /\ Running("ab", "iid")
    /\ LET f == Top
       IN IF tt_hash_move(f.pos) = NoMove /\ f.depth >= 4
          THEN Call([f EXCEPT !.pc = "iid_ret"],
                    NewFrame("ab", f.pos, f.alpha, f.beta, iid_depth(f.depth), f.ply + 1))
          ELSE MovesSetup(f)
    /\ KeepTables /\ KeepDriver

\* line 122: the score is dropped, the hash move is read again
AB_IIDRet ==
    /\ Running("ab", "iid_ret")
    /\ MovesSetup(Top)
    /\ KeepTables /\ KeepDriver

\* lines 137-150: the first search of move i
AB_Loop ==
    /\ Running("ab", "loop")
    /\ LET f == Top
           m == f.legals[f.i + 1]
       IN IF f.i = 0
          THEN Call([f EXCEPT !.pc = "ret_full"],
                    Child(f, m, -f.beta, -f.alpha, f.depth - 1))
          ELSE IF lmr_allowed(f.i, f.depth, m, is_check(f.pos), is_check(play(f.pos, m)))
          THEN Call([f EXCEPT !.pc = "ret_lmr"],
                    Child(f, m, -(f.alpha + 1), -f.alpha,
                          f.depth - 1 - lmr_reduction(f.i, f.depth)))
          ELSE \* score = alpha + 1, so the zero-window search follows at once
               Call([f EXCEPT !.pc = "ret_zw"],
                    Child(f, m, -(f.alpha + 1), -f.alpha, f.depth - 1))
    /\ KeepTables /\ KeepDriver

\* lines 160-184: best score, alpha, the cutoff's side effects, and, when the
\* loop ends, the TT entry and the return
Update(f, score) ==
    LET m == f.legals[f.i + 1]
        better == score > f.best_score
        best_score == IF better THEN score ELSE f.best_score
        best_move == IF better THEN m ELSE f.best_move
        a == Max(f.alpha, score)
        cutoff == a >= f.beta
        quiet_cut == quiet_cutoff(cutoff, m, f.depth)
        key == <<turn(f.pos), m.from, m.to>>
    IN /\ killers' = IF quiet_cut
                     THEN [killers EXCEPT ![f.depth] = <<m, killers[f.depth][1]>>]
                     ELSE killers
       /\ history' = IF quiet_cut /\ m.role # "none"
                     THEN [history EXCEPT ![key] = @ + f.depth * f.depth]
                     ELSE history
       /\ IF cutoff \/ f.i + 1 = Len(f.legals)
          THEN /\ tt' = [tt EXCEPT ![f.pos] =
                           TTEntry(f.depth, best_score,
                                   node_type(best_score, f.old_alpha, f.beta), best_move)]
               /\ Return(best_score)
          ELSE /\ tt' = tt
               /\ Goto([f EXCEPT !.pc = "loop", !.i = f.i + 1, !.alpha = a,
                                 !.best_score = best_score, !.best_move = best_move])

\* lines 147, 152-153: the reduced search's score
AB_RetLMR ==
    /\ Running("ab", "ret_lmr")
    /\ LET f == Top
           m == f.legals[f.i + 1]
           score == -ret.score
       IN IF score > f.alpha
          THEN /\ Call([f EXCEPT !.pc = "ret_zw"],
                       Child(f, m, -(f.alpha + 1), -f.alpha, f.depth - 1))
               /\ KeepTables
          ELSE Update(f, score)
    /\ KeepDriver

\* lines 153-155: the zero-window search's score
AB_RetZW ==
    /\ Running("ab", "ret_zw")
    /\ LET f == Top
           m == f.legals[f.i + 1]
           score == -ret.score
       IN IF score > f.alpha /\ score < f.beta
          THEN /\ Call([f EXCEPT !.pc = "ret_full"],
                       Child(f, m, -f.beta, -f.alpha, f.depth - 1))
               /\ KeepTables
          ELSE Update(f, score)
    /\ KeepDriver

\* lines 143, 155: the full-window search's score
AB_RetFull ==
    /\ Running("ab", "ret_full")
    /\ Update(Top, -ret.score)
    /\ KeepDriver

---------------------------------------------------------------------------
(* Text: a line is a sequence of whitespace-separated tokens.  A token is  *)
(* either a word or a well-formed UCI move (from, to, promotion); a UCI    *)
(* move parses, a word does not.                                           *)

Word(w) == [k |-> "word", w |-> w, from |-> 0, to |-> 0, promotion |-> "none"]
Uci(from, to, promotion) ==
    [k |-> "uci", w |-> "", from |-> from, to |-> to, promotion |-> promotion]

\* Move::to_uci
to_uci(m) == Uci(m.from, m.to, m.promotion)

\* UciMove::to_move: the legal move of p the text names, or none
to_move(p, tok) ==
    LET L == {m \in Range(legal_moves(p)) : to_uci(m) = tok}
    IN IF tok.k = "uci" /\ L # {} THEN CHOOSE m \in L : TRUE ELSE NoMove

\* the six fields of a FEN the table has a position for
FenOf(p) ==
    << Word(CASE p = 3 -> "r3k2r/p5P1/8/8/8/8/8/RNB1K3"
              [] p = 5 -> "rn2k2r/p5P1/8/8/8/2N5/8/R1B1K3"
              [] p = 12 -> "4k2r/p7/8/8/8/8/8/R3K3"
              [] p = 15 -> "R3k3/8/4K3/8/8/8/8/8"
              [] p = 18 -> "4k3/8/8/8/8/8/4p3/R3K3"
              [] p = 20 -> "8/8/8/4k3/8/8/8/4K3"),
       Word(IF turn(p) = 0 THEN "w" ELSE "b"), Word("-"), Word("-"), Word("0"), Word("1") >>
FenPositions == {3, 5, 12, 15, 18, 20}

\* Fen::from_str followed by into_position: the position, or 0 for an error
parse_fen(fields) ==
    LET S == {p \in FenPositions : FenOf(p) = fields}
    IN IF S # {} THEN CHOOSE p \in S : TRUE ELSE 0

---------------------------------------------------------------------------
(* opening_book.rs: for a position of the book, the candidate strings;     *)
(* get_move picks one by the clock.  "b5xc6" is one of the book's strings  *)
(* that is no UCI move.                                                    *)

BookMoves(p) ==
    CASE p = StartPos -> {Uci(12, 28, "none")}
      [] p = 3 -> {Uci(2, 20, "none"), Word("b5xc6"), Uci(1, 16, "none")}
      [] OTHER -> {}

---------------------------------------------------------------------------
(* engine.rs: find_best_move (lines 187-220) *)

\* lines 208-209
aspiration_alpha(score) == score - AspirationDelta
aspiration_beta(score) == score + AspirationDelta

aspiration_failed_strict(score, alpha, beta) == score < alpha \/ score > beta

\* line 203
aspiration_failed(score, alpha, beta) == score <= alpha \/ score >= beta

\* main.rs lines 54-57: the answer to go
FinishGo(m, book, iters) ==
    /\ stack' = <<>>
    /\ dpc' = "idle"
    /\ result' = [move |-> m, book |-> book, iters |-> iters]
    /\ output' = IF m # NoMove THEN <<[text |-> "bestmove", move |-> to_uci(m)]>> ELSE <<>>
    /\ UNCHANGED <<pos, lastCmd, prevPos, goCount, statics, ev, ret>>

StartSearch(f) ==
    /\ Goto([f EXCEPT !.pc = "iter", !.alpha = -InfScore, !.beta = InfScore,
                      !.depth = 1, !.best_move = NoMove])
    /\ KeepDriver

\* lines 188-198: the book, then the search's locals
FBM_Book ==
    /\ Running("fbm", "entry")
    /\ IF BookMoves(Top.pos) = {}
       THEN StartSearch(Top)
       ELSE \E m_str \in BookMoves(Top.pos) :
               IF to_move(Top.pos, m_str) # NoMove
               THEN FinishGo(to_move(Top.pos, m_str), TRUE, 0)
               ELSE StartSearch(Top)
    /\ KeepTables

\* lines 200-201 and 219: the next iteration, or the result
FBM_Iter ==
    /\ Running("fbm", "iter")
    /\ LET f == Top
       IN IF f.depth <= DriverDepth
          THEN /\ Call([f EXCEPT !.pc = "ret1"],
                       NewFrame("ab", f.pos, f.alpha, f.beta, f.depth, 0))
               /\ KeepDriver
          ELSE FinishGo(f.best_move, FALSE, f.depth - 1)
    /\ KeepTables

\* lines 212-217: the root's TT entry gives the best move so far
EndIteration(f) ==
    LET m == tt_hash_move(f.pos)
    IN Goto([f EXCEPT !.pc = "iter", !.depth = f.depth + 1,
                      !.best_move = IF m # NoMove THEN m ELSE f.best_move])

\* lines 201-210: the iteration's score; a failed window is searched again
FBM_Ret1 ==
    /\ Running("fbm", "ret1")
    /\ LET f == Top
           score == ret.score
       IN IF aspiration_failed(score, f.alpha, f.beta)
          THEN Call([f EXCEPT !.pc = "ret2", !.alpha = -InfScore, !.beta = InfScore,
                              !.score = score, !.old_alpha = f.alpha, !.old_beta = f.beta],
                    NewFrame("ab", f.pos, -InfScore, InfScore, f.depth, 0))
          ELSE EndIteration([f EXCEPT !.alpha = aspiration_alpha(score),
                                      !.beta = aspiration_beta(score),
                                      !.score = score, !.old_alpha = f.alpha,
                                      !.old_beta = f.beta])
    /\ KeepTables /\ KeepDriver

\* line 206: the second search's score is dropped
FBM_Ret2 ==
    /\ Running("fbm", "ret2")
    /\ EndIteration(Top)
    /\ KeepTables /\ KeepDriver

---------------------------------------------------------------------------
(* main.rs: the driver loop *)

\* update_position, lines 65-73
RECURSIVE update_position(_, _)
update_position(p, moves) ==
    IF moves = <<>> THEN p
    ELSE LET m == to_move(p, Head(moves))
         IN update_position(IF m # NoMove THEN play(p, m) ELSE p, Tail(moves))

\* parts.iter().position(|r| r == "moves"), 1-based; 0 when absent
moves_index(parts) ==
    LET S == {k \in 1..Len(parts) : parts[k] = Word("moves")}
    IN IF S = {} THEN 0 ELSE CHOOSE k \in S : \A j \in S : k <= j

E2E4 == Uci(12, 28, "none")
E7E5 == Uci(52, 36, "none")
E1D1 == Uci(4, 3, "none")
PositionFen(p) == <<Word("position"), Word("fen")>> \o FenOf(p)

\* the lines the driver is given
Lines ==
    { <<>>, <<Word("uci")>>, <<Word("isready")>>, <<Word("ucinewgame")>>,
      <<Word("go")>>, <<Word("quit")>>, <<Word("stop")>>,
      <<Word("position")>>, <<Word("position"), Word("startpos")>>,
      <<Word("position"), Word("startpos"), Word("moves"), E2E4, Word("e9e9"), E7E5>>,
      <<Word("position"), Word("fen")>>,
      <<Word("position"), Word("fen"), Word("8/8/8/4k3/8/8/8/4K3"), Word("w"), Word("-"), Word("-")>>,
      <<Word("position"), Word("fen"), Word("8/8/8/8/8/8/8/8"), Word("w"), Word("-"), Word("-"),
        Word("0"), Word("1")>>,
      <<Word("position"), Word("fen"), Word("8/8/8/4k3/8/8/8/4K3"), Word("w"), Word("-"), Word("-"),
        Word("moves"), E1D1>>,
      <<Word("position"), Word("fen"), Word("8/8/9/8/8/8/8/8"), Word("w"), Word("-"), Word("-"),
        Word("0"), Word("1"), Word("moves"), E1D1>> }
    \cup {PositionFen(p) : p \in FenPositions}

Handle(line) ==
    /\ dpc = "idle"
    /\ lastCmd' = line
    /\ prevPos' = pos

\* line 20: an empty line; line 60: any other command
Ignore ==
    \E line \in Lines :
        /\ Handle(line)
        /\ \/ Len(line) = 0
           \/ /\ Len(line) > 0
              /\ line[1].w \notin {"uci", "isready", "ucinewgame", "position", "go", "quit"}
        /\ output' = <<>>
        /\ UNCHANGED <<pos, dpc, goCount, result, tt, killers, history, stack, ret, statics, ev>>

\* lines 23-27
CmdUci ==
    \E line \in Lines :
        /\ Handle(line)
        /\ Len(line) > 0 /\ line[1] = Word("uci")
        /\ output' = << [text |-> "id name BetterFish", move |-> NoMove],
                        [text |-> "id author Gemini CLI", move |-> NoMove],
                        [text |-> "uciok", move |-> NoMove] >>
        /\ UNCHANGED <<pos, dpc, goCount, result, tt, killers, history, stack, ret, statics, ev>>

\* line 28
CmdIsReady ==
    \E line \in Lines :
        /\ Handle(line)
        /\ Len(line) > 0 /\ line[1] = Word("isready")
        /\ output' = << [text |-> "readyok", move |-> NoMove] >>
        /\ UNCHANGED <<pos, dpc, goCount, result, tt, killers, history, stack, ret, statics, ev>>

\* lines 29-32
CmdUciNewGame ==
    \E line \in Lines :
        /\ Handle(line)
        /\ Len(line) > 0 /\ line[1] = Word("ucinewgame")
        /\ pos' = StartPos
        /\ tt' = EmptyTT /\ killers' = EmptyKillers /\ history' = EmptyHistory
        /\ output' = <<>>
        /\ UNCHANGED <<dpc, goCount, result, stack, ret, statics, ev>>

\* lines 33-52; parts[2..8] panics when the line has fewer than eight tokens
CmdPosition ==
    \E parts \in Lines :
        /\ Handle(parts)
        /\ Len(parts) > 0 /\ parts[1] = Word("position")
        /\ output' = <<>>
        /\ IF Len(parts) > 1 /\ parts[2] = Word("startpos")
           THEN /\ pos' = IF Len(parts) > 2 /\ parts[3] = Word("moves")
                          THEN update_position(StartPos, SubSeq(parts, 4, Len(parts)))
                          ELSE StartPos
                /\ dpc' = dpc
           ELSE IF Len(parts) > 1 /\ parts[2] = Word("fen")
           THEN IF Len(parts) < 8
                THEN pos' = pos /\ dpc' = "panicked"
                ELSE LET p_chess == parse_fen(SubSeq(parts, 3, 8))
                         p == IF p_chess # 0 THEN p_chess ELSE pos
                         moves_idx == moves_index(parts)
                     IN /\ pos' = IF moves_idx # 0
                                  THEN update_position(p, SubSeq(parts, moves_idx + 1, Len(parts)))
                                  ELSE p
                        /\ dpc' = dpc
           ELSE pos' = pos /\ dpc' = dpc
        /\ UNCHANGED <<goCount, result, tt, killers, history, stack, ret, statics, ev>>

\* line 54: go calls find_best_move(&pos, depth)
CmdGo ==
    \E line \in Lines :
        /\ Handle(line)
        /\ Len(line) > 0 /\ line[1] = Word("go")
        /\ goCount < MaxGo
        /\ goCount' = goCount + 1
        /\ dpc' = "go"
        /\ output' = <<>>
        /\ stack' = << NewFrame("fbm", pos, -InfScore, InfScore, 0, 0) >>
        /\ UNCHANGED <<pos, result, tt, killers, history, ret, statics, ev>>

\* line 59
CmdQuit ==
    \E line \in Lines :
        /\ Handle(line)
        /\ Len(line) > 0 /\ line[1] = Word("quit")
        /\ dpc' = "quit"
        /\ output' = <<>>
        /\ UNCHANGED <<pos, goCount, result, tt, killers, history, stack, ret, statics, ev>>

---------------------------------------------------------------------------
(* The program *)

\* the static scores the search runs on: the table's, the table's with the
\* sides' fortunes exchanged, and the extremes of evaluate's range
TableStatics == [p \in Positions |-> Game[p].static]
StaticTables ==
    { TableStatics,
      [p \in Positions |-> -Game[p].static],
      [p \in Positions |-> IF Game[p].static > 0 THEN MateValue ELSE -MateValue] }

NoResult == [move |-> NoMove, book |-> FALSE, iters |-> 0]
EvOff == [pc |-> "off", over |-> "no", n_knights |-> 0, n_bishops |-> 0, n_rooks |-> 0,
          n_queens |-> 0, phase |-> 0, score |-> 0]

Init ==
    /\ GameWellFormed
    /\ pos = StartPos
    /\ dpc = "idle"
    /\ lastCmd = <<>>
    /\ prevPos = StartPos
    /\ output = <<>>
    /\ goCount = 0
    /\ result = NoResult
    /\ tt = EmptyTT
    /\ killers = EmptyKillers
    /\ history = EmptyHistory
    /\ stack = <<>>
    /\ ret = NoRet
    /\ statics \in StaticTables
    /\ ev = EvOff

\* evaluate, taken alone: the inputs are the piece counts of a position and
\* whether it is over; the phase is computed for a live position only
EvalInputs ==
    [pc : {"entry"}, over : {"no", "checkmate", "draw"},
     n_knights : 0..MaxCount, n_bishops : 0..MaxCount, n_rooks : 0..MaxCount,
     n_queens : 0..MaxCount, phase : {0}, score : {0}]

InitEval ==
    /\ GameWellFormed
    /\ pos = StartPos /\ dpc = "idle" /\ lastCmd = <<>> /\ prevPos = StartPos
    /\ output = <<>> /\ goCount = 0 /\ result = NoResult
    /\ tt = EmptyTT /\ killers = EmptyKillers /\ history = EmptyHistory
    /\ stack = <<>> /\ ret = NoRet
    /\ statics = TableStatics
    /\ ev \in EvalInputs

\* evaluation.rs lines 24-39
Evaluate ==
    /\ ev.pc = "entry"
    /\ ev' = IF ev.over # "no"
             THEN [ev EXCEPT !.pc = "returned",
                             !.score = IF ev.over = "checkmate" THEN -MateValue ELSE 0]
             ELSE [ev EXCEPT !.pc = "phase",
                             !.phase = game_phase(ev.n_knights, ev.n_bishops,
                                                  ev.n_rooks, ev.n_queens)]
    /\ UNCHANGED <<pos, dpc, lastCmd, prevPos, output, goCount, result, tt, killers,
                   history, stack, ret, statics>>

\* evaluation.rs line 48 with get_pst_value: a king on its starting square,
\* MG_KING_PST = 20 and EG_KING_PST = -50 there (constants.rs is not among the
\* sources; any two distinct table values serve)
EvaluatePiece ==
    /\ ev.pc = "phase"
    /\ ev' = [ev EXCEPT !.pc = "returned", !.score = get_pst_value(20, -50, ev.phase)]
    /\ UNCHANGED <<pos, dpc, lastCmd, prevPos, output, goCount, result, tt, killers,
                   history, stack, ret, statics>>

NextEval == Evaluate \/ EvaluatePiece

SpecEval == InitEval /\ [][NextEval]_vars

Driver == Ignore \/ CmdUci \/ CmdIsReady \/ CmdUciNewGame \/ CmdPosition \/ CmdGo \/ CmdQuit

Search ==
    \/ FBM_Book \/ FBM_Iter \/ FBM_Ret1 \/ FBM_Ret2
    \/ AB_Entry \/ AB_QsRet \/ AB_NullRet \/ AB_IID \/ AB_IIDRet
    \/ AB_Loop \/ AB_RetLMR \/ AB_RetZW \/ AB_RetFull
    \/ QS_Entry \/ QS_Loop \/ QS_Ret

Next == Driver \/ Search

Spec == Init /\ [][Next]_vars

\* the program is sequential: a search that can take a step takes it
SpecFair == Spec /\ WF_vars(Search)

---------------------------------------------------------------------------
(* Claims *)

GoLine == <<Word("go")>>
GoAnswered == dpc = "idle" /\ lastCmd = GoLine

\* C1: find_best_move returns a move, and a legal one, for every position
\* that has at least one legal move.
C1_LegalMoveReturned ==
    (GoAnswered /\ Len(legal_moves(pos)) > 0)
        => (result.move # NoMove /\ result.move \in Range(legal_moves(pos)))

\* C2: every go command is answered with exactly one bestmove line before
\* the next command is read, whatever the position.
C2_OneBestmovePerGo ==
    GoAnswered => Len(SelectSeq(output, LAMBDA l : l.text = "bestmove")) = 1

\* C3: alpha_beta returns -30000 + ply at a node, reached at ply `ply`, whose
\* side to move is in check and has no legal move.
C3_MateScoreCountsPly ==
    (ret.fn = "ab" /\ is_checkmate(ret.pos)) => ret.score = -MateValue + ret.ply

\* C4: a position fen command with a faulty FEN (fewer than six fields, or
\* fields that parse to no position) does not abort the driver and leaves
\* the position as it was.
FaultyFen(parts) ==
    /\ Len(parts) >= 2 /\ parts[1] = Word("position") /\ parts[2] = Word("fen")
    /\ \/ Len(parts) < 8
       \/ parse_fen(SubSeq(parts, 3, 8)) = 0
C4_FaultyFenIgnored ==
    FaultyFen(lastCmd) => (dpc # "panicked" /\ pos = prevPos)

\* C5: find_best_move terminates, and when it searched it completed the whole
\* schedule 1..max_depth: every go reaches its answer, by the book or after
\* DriverDepth iterations.
C5_SearchTerminates ==
    (dpc = "go") ~> (dpc = "idle" /\ (result.book \/ result.iters = DriverDepth))

\* C5 witness: the search is inside two successive nodes that are both in
\* check (each took the check extension), and a full search has completed.
C5_Witness ==
    /\ goCount = MaxGo /\ result.iters = DriverDepth
    /\ \E k \in 2..(Len(stack) - 1) :
          /\ stack[k].fn = "ab" /\ is_check(stack[k].pos)
          /\ stack[k + 1].fn = "ab" /\ is_check(stack[k + 1].pos)
          /\ stack[k + 1].pc # "entry"

\* the first search of iteration d >= 2 has just been called
IterationStarts ==
    /\ dpc = "go" /\ Len(stack) = 2
    /\ stack[1].fn = "fbm" /\ stack[1].pc = "ret1" /\ stack[1].depth >= 2
    /\ stack[2].pc = "entry"

\* the score of the iteration before was outside the window it was searched with
\* (the frame keeps that window in old_alpha, old_beta)
PreviousFailed ==
    stack[1].score <= stack[1].old_alpha \/ stack[1].score >= stack[1].old_beta

\* C6 (as claimed): the window of iteration d+1 is (score - 50, score + 50)
\* around the score of iteration d, also when iteration d failed its window.
C6_WindowAroundScore ==
    IterationStarts =>
        /\ stack[2].alpha = stack[1].score - AspirationDelta
        /\ stack[2].beta = stack[1].score + AspirationDelta

\* C6 (amended): the window of iteration d+1 is (score - 50, score + 50)
\* around the score of iteration d when that score was inside iteration d's
\* window, and the full window (-40000, 40000) when iteration d failed.
C6_WindowAfterIteration ==
    IterationStarts =>
        IF PreviousFailed
        THEN stack[2].alpha = -InfScore /\ stack[2].beta = InfScore
        ELSE /\ stack[2].alpha = stack[1].score - AspirationDelta
             /\ stack[2].beta = stack[1].score + AspirationDelta

\* C6 witness: an iteration starts after one that failed its window.
C6_Witness == IterationStarts /\ PreviousFailed

\* the class order_moves is claimed to sort by
MoveClass(f, m) ==
    IF f.hash_move # NoMove /\ m = f.hash_move THEN 1
    ELSE IF is_capture(m) THEN 2
    ELSE IF f.depth < KillerDepths /\ m = killers[f.depth][1] THEN 3
    ELSE IF f.depth < KillerDepths /\ m = killers[f.depth][2] THEN 4
    ELSE IF is_promotion(m) THEN 5
    ELSE 6

\* the top frame has just ordered its moves
JustOrdered ==
    /\ dpc = "go" /\ stack # <<>>
    /\ Top.fn \in {"ab", "qs"} /\ Top.pc = "loop" /\ Top.i = 0

\* C7: order_moves returns a permutation of its input sorted by class: hash
\* move, captures, killer 0, killer 1, non-capture promotions, then the other
\* quiet moves by non-increasing history counter.
C7_OrderedByClass ==
    JustOrdered =>
        LET f == Top
            n == Len(f.legals)
        IN /\ Range(f.legals) \subseteq Range(legal_moves(f.pos))
           /\ Cardinality(Range(f.legals)) = n
           /\ f.fn = "ab" => n = Len(legal_moves(f.pos))
           /\ \A j, k \in 1..n : j < k =>
                 /\ MoveClass(f, f.legals[j]) <= MoveClass(f, f.legals[k])
                 /\ (MoveClass(f, f.legals[j]) = 6 /\ MoveClass(f, f.legals[k]) = 6)
                      => history[<<turn(f.pos), f.legals[j].from, f.legals[j].to>>]
                           >= history[<<turn(f.pos), f.legals[k].from, f.legals[k].to>>]

\* C8: alpha < beta at the entry of every alpha_beta and quiescence call.
C8_WindowOpenAtEntry ==
    \A k \in 1..Len(stack) :
        (stack[k].fn \in {"ab", "qs"} /\ stack[k].pc = "entry")
            => stack[k].alpha < stack[k].beta

\* C8 witness: a call is entered from a node whose bounds the TT probe had
\* tightened, with a zero window.
C8_Witness ==
    /\ Len(stack) >= 3
    /\ Top.fn = "ab" /\ Top.pc = "entry" /\ Top.beta = Top.alpha + 1
    /\ stack[Len(stack) - 1].fn = "ab" /\ stack[Len(stack) - 1].probe # "none"

\* C9: every score alpha_beta or quiescence returns, and every score stored
\* in the transposition table, is strictly between -40000 and 40000; a stored
\* entry is never the untouched best_score -40000 with no move.
C9_ScoresInsideInfinity ==
    /\ ret.fn \in {"ab", "qs"} => (-InfScore < ret.score /\ ret.score < InfScore)
    /\ \A p \in Positions :
          tt[p].present => /\ -InfScore < tt[p].score /\ tt[p].score < InfScore
                           /\ tt[p].best_move # NoMove

\* C9 witness: a node with legal moves has stored and returned its score,
\* searched with the full window from -40000.
C9_Witness ==
    /\ ret.fn = "ab" /\ ret.ply = 1 /\ Len(legal_moves(ret.pos)) > 0
    /\ tt[ret.pos].present /\ tt[ret.pos].score = ret.score
    /\ Len(stack) = 2 /\ Top.pc = "ret_full" /\ Top.old_alpha = -InfScore /\ Top.i = 0

\* C10: the phase evaluate computes for a live position is in 0..256, also
\* when promotions have put more than the initial non-pawn material on the
\* board.
C10_PhaseInRange ==
    ev.pc \in {"phase", "returned"} /\ ev.over = "no" => (0 <= ev.phase /\ ev.phase <= 256)

\* the frames in which a null-move search is running
NullMoveNodes == {k \in 1..Len(stack) : stack[k].fn = "ab" /\ stack[k].pc = "null_ret"}

\* a node at which the null-move search is not to run: king and pawns only,
\* in check, extended depth below 3, or ply 0
NoNullMoveNode(f) ==
    \/ ~has_major_pieces(f.pos)
    \/ is_check(f.pos)
    \/ check_extension(f.depth, is_check(f.pos)) < 3
    \/ f.ply = 0

\* the exits of alpha_beta that precede the null move: the TT probe's returns,
\* the horizon, a finished game, reverse futility
ExitsBeforeNullMove(f) ==
    LET in_check == is_check(f.pos)
        d == check_extension(f.depth, in_check)
        e == tt[f.pos]
        hit == e.present /\ e.depth >= d
        a == IF hit /\ e.node_type = "LowerBound" THEN Max(f.alpha, e.score) ELSE f.alpha
        b == IF hit /\ e.node_type = "UpperBound" THEN Min(f.beta, e.score) ELSE f.beta
    IN \/ hit /\ (e.node_type = "Exact" \/ a >= b)
       \/ d = 0
       \/ is_game_over(f.pos)
       \/ d = 1 /\ ~in_check /\ evaluate(f.pos) - FutilityMargin >= b

\* the running call goes on to its moves (hash move, IID, move loop)
GoesToMoves ==
    /\ Len(stack') = Len(stack)
    /\ stack'[Len(stack)].pc = "iid"
    /\ stack'[Len(stack)].pos = Top.pos

\* C11 (as claimed): at a node where the null-move search is not to run the
\* real moves are always searched.  Taken for nodes that have legal moves,
\* are not at the horizon and get no return from the TT probe.
C11_MovesAlwaysSearched ==
    [][ ( /\ Running("ab", "entry") /\ NoNullMoveNode(Top)
          /\ ~is_game_over(Top.pos)
          /\ check_extension(Top.depth, is_check(Top.pos)) > 0
          /\ ~tt[Top.pos].present )
        => GoesToMoves ]_vars

\* C11 (amended): the null-move search never runs at a node whose side to
\* move has king and pawns only, is in check, has extended depth below 3 or
\* has ply 0; such a node goes on to its real moves unless one of the exits
\* that precede the null move applies (TT probe return, quiescence at depth
\* 0, finished game, reverse futility at depth 1).
C11_NullMoveGuarded ==
    [][ (Running("ab", "entry") /\ NoNullMoveNode(Top))
        => IF ExitsBeforeNullMove(Top)
           THEN \/ Len(stack') = Len(stack) - 1
                \/ Len(stack') = Len(stack) + 1 /\ stack'[Len(stack')].fn = "qs"
           ELSE GoesToMoves ]_vars

\* C11 witness: a null-move search is running, and below it a node of a side
\* with king and pawns only, not in check, at depth >= 3 and ply > 0, is
\* searching its moves.
C11_Witness ==
    /\ NullMoveNodes # {}
    /\ \E k \in 1..Len(stack) :
          /\ stack[k].fn = "ab" /\ stack[k].pc \in {"ret_full", "ret_zw", "ret_lmr"}
          /\ ~has_major_pieces(stack[k].pos) /\ ~is_check(stack[k].pos)
          /\ stack[k].depth >= 3 /\ stack[k].ply > 0

\* the step is the cutoff of alpha_beta's move loop by a non-capture move:
\* the move becomes killer 0 of the node's depth, the old killer 0 becomes
\* killer 1, and the move's history counter grows by depth * depth
QuietCutoffStep ==
    /\ stack # <<>> /\ Top.fn = "ab" /\ Top.pc \in {"ret_lmr", "ret_zw", "ret_full"}
    /\ LET f == Top
           m == f.legals[f.i + 1]
           key == <<turn(f.pos), m.from, m.to>>
       IN /\ ~is_capture(m)
          /\ Max(f.alpha, -ret.score) >= f.beta
          /\ killers' = [killers EXCEPT ![f.depth] = <<m, killers[f.depth][1]>>]
          /\ history' = [history EXCEPT ![key] = history[key] + f.depth * f.depth]

\* C12: every non-empty killer slot holds a non-capture move, and while the
\* engine searches (quiescence, TT probe, early returns, the book path
\* included) killers and history change only in the cutoff of alpha_beta's
\* move loop by a non-capture move, the history by depth * depth.
C12_TablesChangeOnQuietCutoff ==
    /\ [](\A d \in DOMAIN killers : \A s \in 1..2 :
            killers[d][s] # NoMove => ~is_capture(killers[d][s]))
    /\ [][ (dpc = "go" /\ (killers' # killers \/ history' # history))
           => QuietCutoffStep ]_vars

\* C12 witness: quiescence runs while both killer slots of some depth are
\* filled with different moves and a history counter has grown at depth >= 2.
C12_Witness ==
    /\ dpc = "go" /\ stack # <<>> /\ Top.fn = "qs" /\ Top.pc = "ret"
    /\ \E d \in DOMAIN killers :
          /\ killers[d][1] # NoMove /\ killers[d][2] # NoMove
          /\ killers[d][1] # killers[d][2]
    /\ \E key \in DOMAIN history : history[key] >= 4

\* C13: the depth of every alpha_beta and quiescence call is >= 0: none of
\* depth - 1 (child), depth - 3 (null move), depth - 2 (internal iterative
\* deepening) and depth - 1 - R (late move reduction) goes below zero.
C13_DepthNeverNegative ==
    \A k \in 1..Len(stack) :
        /\ stack[k].depth >= 0
        /\ (stack[k].fn = "ab" /\ stack[k].pc \in {"loop", "ret_full", "ret_zw", "ret_lmr"})
              => stack[k].depth >= 1
        /\ (stack[k].fn = "ab" /\ stack[k].pc = "null_ret") => null_move_depth(stack[k].depth) >= 0
        /\ (stack[k].fn = "ab" /\ stack[k].pc = "iid_ret") => iid_depth(stack[k].depth) >= 0
        /\ (stack[k].fn = "ab" /\ stack[k].pc = "ret_lmr")
              => stack[k].depth - 1 - lmr_reduction(stack[k].i, stack[k].depth) >= 0

\* C13 witness: a late move reduction at depth 3 with R = 2 has called its
\* child with depth 0.
C13_Witness ==
    /\ dpc = "go"
    /\ \E k \in 1..(Len(stack) - 1) :
          /\ stack[k].fn = "ab" /\ stack[k].pc = "ret_lmr" /\ stack[k].depth = 3
          /\ lmr_reduction(stack[k].i, stack[k].depth) = 2
          /\ stack[k + 1].fn = "ab" /\ stack[k + 1].depth = 0

====
